---- MODULE Spec2Model ----
(***************************************************************************)
(* Scoped GC settings of crossbeam-epoch (src/settings.rs).                *)
(*                                                                         *)
(* One GCSettings cell `collect` holds a Setting<Collect>.  Scope handles  *)
(* (ScopedGCSettings) hold an owned clone `old` of the cell taken at        *)
(* construction and a shared reference `cur` to the cell.  The two request *)
(* methods read `old`, apply the strength rule and store the result in     *)
(* `cur`.  Handles are plain values behind shared references: several can  *)
(* be alive at once and they can be dropped in any order.                  *)
(***************************************************************************)
EXTENDS Integers, FiniteSets, Sequences, TLC

\* Number of scope handles created in one run.
MaxScopes == 2

Scopes == 1..MaxScopes

----------------------------------------------------------------------------
(* Data types *)

\* enum Collect { NoCollect, Collect }
CollectT == {"NoCollect", "Collect"}

\* enum Strength<T> { Lenient, AsStrongAs(T), Strict }
Lenient == [tag |-> "Lenient"]

AsStrongAs(t) == [tag |-> "AsStrongAs", t |-> t]

Strict == [tag |-> "Strict"]

StrengthT == {Lenient, Strict} \cup {AsStrongAs(t) : t \in CollectT}

\* struct Setting<T> { val, strength }
Setting(v, st) == [val |-> v, strength |-> st]

SettingT == {Setting(v, st) : v \in CollectT, st \in StrengthT}

----------------------------------------------------------------------------
(* The domination algebra *)

\* impl Stronger for Collect, with the two arms exchanged
Collect_stronger_than_inverted(self, other) ==
    CASE self = "Collect"   -> TRUE
      [] self = "NoCollect" -> FALSE

\* impl Stronger for Collect
Collect_stronger_than(self, other) ==
    CASE self = "Collect"   -> FALSE
      [] self = "NoCollect" -> TRUE

\* impl Stronger for Strength<T>, with AsStrongAs dominating Strict
Strength_stronger_than_over_strict(self, other) ==
    CASE self.tag = "Lenient"    -> FALSE
      [] self.tag = "AsStrongAs" ->
            (CASE other.tag = "Lenient"    -> TRUE
               [] other.tag = "AsStrongAs" -> Collect_stronger_than(self.t, other.t)
               [] other.tag = "Strict"     -> TRUE)
      [] self.tag = "Strict"     -> TRUE

\* impl Stronger for Strength<T>, with T = Collect
Strength_stronger_than(self, other) ==
    CASE self.tag = "Lenient"    -> FALSE
      [] self.tag = "AsStrongAs" ->
            (CASE other.tag = "Lenient"    -> TRUE
               [] other.tag = "AsStrongAs" -> Collect_stronger_than(self.t, other.t)
               [] other.tag = "Strict"     -> FALSE)
      [] self.tag = "Strict"     -> TRUE

\* strongest::<Collect>, ignoring its operands' order
strongest_Collect_keeps_old(old_v, new_v) == old_v

\* strongest::<Collect>, always taking the second operand
strongest_Collect_takes_new(old_v, new_v) == new_v

\* strongest::<Collect>
strongest_Collect(old_v, new_v) ==
    IF Collect_stronger_than(old_v, new_v) THEN old_v ELSE new_v

\* strongest::<Strength<Collect>>, always taking the request
strongest_Strength_takes_new(old_s, new_s) == new_s

\* strongest::<Strength<Collect>>
strongest_Strength(old_s, new_s) ==
    IF Strength_stronger_than(old_s, new_s) THEN old_s ELSE new_s

----------------------------------------------------------------------------
(* State *)

VARIABLES
    collect,   \* GCSettings.collect: the content of the live cell
    created,   \* number of ScopedGCSettings constructed so far; handle k is
               \* the k-th constructed, so a larger number is a deeper scope
    alive,     \* the handles that are constructed and not yet dropped
    old,       \* old[s]: ScopedGCSettings.old.collect of each alive handle
    solo,      \* alive handles since whose construction no other handle
               \* has issued a request
    last,      \* the call that produced this state, its arguments, the
               \* cell's content before it and the caller's snapshot
    operands,  \* the operands `old`, `new` of a direct call of strongest, on
               \* Collect (c_old, c_new) and on Strength (s_old, s_new)
    picked     \* what strongest returned for them (c, s)

vars == <<collect, created, alive, old, solo, last, operands, picked>>

\* No direct call of strongest is under way
NoOperands ==
    [c_old |-> "Collect", c_new |-> "Collect",
     s_old |-> Lenient, s_new |-> Lenient]

\* strongest has not returned yet
Pending == [c |-> "Pending", s |-> [tag |-> "Pending"]]

Ops == {"GCSettings::new", "ScopedGCSettings::new", "with_collect_strength",
        "with_collect", "drop"}

Requests == {"with_collect_strength", "with_collect"}

Call(op, s, v, st, pre, snap) ==
    [op |-> op, scope |-> s, val |-> v, strength |-> st, pre |-> pre,
     snap |-> snap]

TypeOK ==
    /\ collect \in SettingT
    /\ created \in 0..MaxScopes
    /\ alive \subseteq 1..created
    /\ old \in [alive -> SettingT]
    /\ solo \subseteq alive
    /\ last.op \in Ops

----------------------------------------------------------------------------
(* Operations *)

\* GCSettings::new() starting at Strict
GCSettings_new_strict == Setting("Collect", Strict)

\* GCSettings::new()
GCSettings_new == Setting("Collect", Lenient)

\* The settings right after GCSettings::new(), no scope handle yet
InitSettings ==
    /\ collect = GCSettings_new
    /\ created = 0
    /\ alive = {}
    /\ old = [s \in {} |-> GCSettings_new]
    /\ solo = {}
    /\ last = Call("GCSettings::new", 0, "Collect", Lenient,
                   GCSettings_new, GCSettings_new)

Init ==
    /\ InitSettings
    /\ operands = NoOperands
    /\ picked = Pending

\* ScopedGCSettings::new(&collect) with `old: GCSettings::new()`, no clone
ScopedGCSettings_new_fresh ==
    /\ created < MaxScopes
    /\ created' = created + 1
    /\ alive' = alive \cup {created + 1}
    /\ old' = [s \in alive \cup {created + 1} |->
                  IF s = created + 1 THEN GCSettings_new ELSE old[s]]
    /\ solo' = solo \cup {created + 1}
    /\ last' = Call("ScopedGCSettings::new", created + 1, collect.val,
                    collect.strength, collect, GCSettings_new)
    /\ UNCHANGED <<collect, operands, picked>>

\* ScopedGCSettings::new(&collect): old is a clone, cur the reference
ScopedGCSettings_new ==
    /\ created < MaxScopes
    /\ created' = created + 1
    /\ alive' = alive \cup {created + 1}
    /\ old' = [s \in alive \cup {created + 1} |->
                  IF s = created + 1 THEN collect ELSE old[s]]
    /\ solo' = solo \cup {created + 1}
    /\ last' = Call("ScopedGCSettings::new", created + 1, collect.val,
                    collect.strength, collect, collect)
    /\ UNCHANGED <<collect, operands, picked>>

\* `$s.old.$v.get()` read from the cell instead of the snapshot
old_get_reads_cur(s) == collect

\* `let mut setting = $s.old.$v.get();`
old_get(s) == old[s]

\* Requests open to the innermost alive handle only
may_request_innermost(s) == s \in alive /\ \A t \in alive : t <= s

\* `&'a self`: a request needs a shared borrow of a handle that is alive; the
\* handle holds `cur: &'a GCSettings`, a shared reference as well
may_request(s) == s \in alive

\* generate_setting_fncs!, 4-argument arm, with Strict treated as Lenient
generate_setting_fncs_strength_no_strict(setting, va, st) ==
    CASE setting.strength.tag = "AsStrongAs" ->
            Setting(strongest_Collect(va, setting.strength.t),
                    strongest_Strength(setting.strength, st))
      [] OTHER -> Setting(va, st)

\* generate_setting_fncs!, 4-argument arm, Lenient keeping the old strength
generate_setting_fncs_strength_lenient_keeps(setting, va, st) ==
    CASE setting.strength.tag = "Lenient" -> Setting(va, setting.strength)
      [] setting.strength.tag = "AsStrongAs" ->
            Setting(strongest_Collect(va, setting.strength.t),
                    strongest_Strength(setting.strength, st))
      [] setting.strength.tag = "Strict" -> setting

\* generate_setting_fncs!, 4-argument arm: the setting stored in the cell
generate_setting_fncs_strength(setting, va, st) ==
    CASE setting.strength.tag = "Lenient" -> Setting(va, st)
      [] setting.strength.tag = "AsStrongAs" ->
            Setting(strongest_Collect(va, setting.strength.t),
                    strongest_Strength(setting.strength, st))
      [] setting.strength.tag = "Strict" -> setting

\* generate_setting_fncs!, 3-argument arm, with Strict treated as Lenient
generate_setting_fncs_value_no_strict(setting, va) ==
    CASE setting.strength.tag = "AsStrongAs" ->
            Setting(strongest_Collect(va, setting.strength.t),
                    setting.strength)
      [] OTHER -> Setting(va, setting.strength)

\* generate_setting_fncs!, 3-argument arm: the setting stored in the cell
generate_setting_fncs_value(setting, va) ==
    CASE setting.strength.tag = "Lenient" -> Setting(va, setting.strength)
      [] setting.strength.tag = "AsStrongAs" ->
            Setting(strongest_Collect(va, setting.strength.t),
                    setting.strength)
      [] setting.strength.tag = "Strict" -> setting

\* ScopedGCSettings::with_collect_strength(&self, val, strength)
with_collect_strength(s, val, strength) ==
    /\ may_request(s)
    /\ collect' = generate_setting_fncs_strength(old_get(s), val, strength)
    /\ solo' = solo \cap {s}
    /\ last' = Call("with_collect_strength", s, val, strength, collect, old[s])
    /\ UNCHANGED <<created, alive, old, operands, picked>>

\* ScopedGCSettings::with_collect(&self, val)
with_collect(s, val) ==
    /\ may_request(s)
    /\ collect' = generate_setting_fncs_value(old_get(s), val)
    /\ solo' = solo \cap {s}
    /\ last' = Call("with_collect", s, val, old[s].strength, collect, old[s])
    /\ UNCHANGED <<created, alive, old, operands, picked>>

\* The handle goes out of scope.  ScopedGCSettings has no Drop impl: its
\* fields are released and the cell is not written.
drop(s) ==
    /\ s \in alive
    /\ alive' = alive \ {s}
    /\ old' = [t \in alive \ {s} |-> old[t]]
    /\ solo' = solo \ {s}
    /\ last' = Call("drop", s, collect.val, collect.strength, collect, old[s])
    /\ UNCHANGED <<collect, created, operands, picked>>

Next ==
    \/ ScopedGCSettings_new
    \/ \E s \in Scopes, val \in CollectT, strength \in StrengthT :
          with_collect_strength(s, val, strength)
    \/ \E s \in Scopes, val \in CollectT : with_collect(s, val)
    \/ \E s \in Scopes : drop(s)

Spec == Init /\ [][Next]_vars

----------------------------------------------------------------------------
(* strongest called directly, on every pair of operands *)

InitStrongest ==
    /\ InitSettings
    /\ operands \in [c_old : CollectT, c_new : CollectT,
                     s_old : StrengthT, s_new : StrengthT]
    /\ picked = Pending

\* strongest(old, new) on Collect
call_strongest_Collect ==
    /\ picked.c = Pending.c
    /\ picked' = [picked EXCEPT
                     !.c = strongest_Collect(operands.c_old, operands.c_new)]
    /\ UNCHANGED <<collect, created, alive, old, solo, last, operands>>

\* strongest(old, new) on Strength<Collect>
call_strongest_Strength ==
    /\ picked.s = Pending.s
    /\ picked' = [picked EXCEPT
                     !.s = strongest_Strength(operands.s_old, operands.s_new)]
    /\ UNCHANGED <<collect, created, alive, old, solo, last, operands>>

NextStrongest ==
    \/ call_strongest_Collect
    \/ call_strongest_Strength

SpecStrongest == InitStrongest /\ [][NextStrongest]_vars

----------------------------------------------------------------------------
(* Properties.  `last` describes the step that led to the current state:  *)
(* last.pre is the cell before the call, last.snap the caller's snapshot   *)
(* (the cell's content when the calling handle was constructed).           *)

IsRequest == last.op \in Requests

\* Lenient < AsStrongAs(Collect) < AsStrongAs(NoCollect) < Strict
Rank(st) ==
    CASE st = Lenient                 -> 0
      [] st = AsStrongAs("Collect")   -> 1
      [] st = AsStrongAs("NoCollect") -> 2
      [] st = Strict                  -> 3

\* pick_stronger on Collect as section 4.1 tabulates it
PickCollect(a, b) == IF a = "NoCollect" THEN "NoCollect" ELSE b

\* pick_stronger on Strength as section 4.1 tabulates it
PickStrength(a, b) ==
    IF a = Strict \/ b = Strict THEN Strict
    ELSE IF a = Lenient THEN b
    ELSE IF b = Lenient THEN a
    ELSE AsStrongAs(PickCollect(a.t, b.t))

\* The branch rule of section 4.2 applied to the setting `cur`
BranchRule(cur, v, st, setsStrength) ==
    IF cur.strength = Lenient
    THEN Setting(v, IF setsStrength THEN st ELSE cur.strength)
    ELSE IF cur.strength = Strict
    THEN cur
    ELSE Setting(PickCollect(v, cur.strength.t),
                 IF setsStrength THEN PickStrength(cur.strength, st)
                 ELSE cur.strength)

\* C1 as stated: once the cell holds strength Strict, no step changes the
\* cell.
C1_StrictCellNeverChanges ==
    [][collect.strength = Strict => collect' = collect]_vars

\* C1 amended: when the cell holds {v, Strict}, a request by a handle that
\* was constructed while the cell held that {v, Strict} leaves the cell
\* unchanged.
C1_StrictKeptByScopesCreatedUnderIt ==
    (IsRequest /\ last.pre.strength = Strict /\ last.snap = last.pre)
        => collect = last.pre

C1_Witness ==
    /\ last.op = "with_collect"
    /\ last.pre.strength = Strict
    /\ last.snap = last.pre
    /\ last.val # last.pre.val

\* C2 as stated: when a scope handle is dropped the cell holds the snapshot
\* the handle captured at construction.
C2_RestoredAtScopeEnd ==
    last.op = "drop" => collect = last.snap

\* C3 as stated: after a request the cell equals the section 4.2 branch rule
\* applied to the content the cell held immediately before the call.
C3_MergesAgainstLiveCell ==
    IsRequest =>
        collect = BranchRule(last.pre, last.val, last.strength,
                             last.op = "with_collect_strength")

\* C3 amended: after a request the cell equals the section 4.2 branch rule
\* applied to the caller's snapshot.
C3_MergesAgainstSnapshot ==
    IsRequest =>
        collect = BranchRule(last.snap, last.val, last.strength,
                             last.op = "with_collect_strength")

\* A chained request: the cell differs from the caller's snapshot and no
\* other handle has issued a request since the caller was constructed
C3_Witness ==
    /\ IsRequest
    /\ last.scope \in solo
    /\ last.snap # last.pre
    /\ collect # last.pre
    /\ BranchRule(last.snap, last.val, last.strength,
                  last.op = "with_collect_strength")
         # BranchRule(last.pre, last.val, last.strength,
                      last.op = "with_collect_strength")

\* C4 as stated: a request never leaves the cell with a strength below the
\* strength the cell held immediately before the call.
C4_StrengthNeverBelowLiveCell ==
    IsRequest => Rank(collect.strength) >= Rank(last.pre.strength)

\* C4 amended: a request never leaves the cell with a strength below the
\* strength of the caller's snapshot, and a request carrying a strength
\* weaker than the snapshot's leaves the cell with the snapshot's strength.
C4_StrengthNeverBelowSnapshot ==
    /\ IsRequest => Rank(collect.strength) >= Rank(last.snap.strength)
    /\ (last.op = "with_collect_strength"
          /\ Rank(last.strength) < Rank(last.snap.strength))
         => collect.strength = last.snap.strength

C4_Witness ==
    /\ last.op = "with_collect_strength"
    /\ last.snap.strength = AsStrongAs("NoCollect")
    /\ last.strength = Lenient
    /\ collect.strength = AsStrongAs("NoCollect")

\* C5 as stated: a handle constructed while the cell held value NoCollect
\* and strength AsStrongAs(t), t either threshold, with no other handle
\* issuing requests since, never turns the cell's value from NoCollect to
\* Collect.
C5_ConstrainedValueNeverWeakened ==
    (/\ IsRequest
     /\ last.scope \in solo
     /\ last.snap.val = "NoCollect"
     /\ last.snap.strength.tag = "AsStrongAs")
        => ~(last.pre.val = "NoCollect" /\ collect.val = "Collect")

\* C5 amended: the same for the threshold NoCollect only.
C5_NoCollectThresholdNeverWeakened ==
    (/\ IsRequest
     /\ last.scope \in solo
     /\ last.snap.val = "NoCollect"
     /\ last.snap.strength = AsStrongAs("NoCollect"))
        => ~(last.pre.val = "NoCollect" /\ collect.val = "Collect")

C5_Witness ==
    /\ IsRequest
    /\ last.scope \in solo
    /\ last.snap = Setting("NoCollect", AsStrongAs("NoCollect"))
    /\ last.pre.val = "NoCollect"
    /\ last.val = "Collect"

\* C6: after any request of a handle constructed while the cell was
\* {v, Strict}, the cell is {v, Strict}.
C6_StrictSnapshotRequestsAreNoOps ==
    (IsRequest /\ last.snap.strength = Strict) => collect = last.snap

C6_Witness ==
    /\ last.op = "with_collect_strength"
    /\ last.snap.strength = Strict
    /\ last.val # last.snap.val
    /\ last.strength = AsStrongAs("NoCollect")

\* C7: for a handle constructed while the cell was
\* {NoCollect, AsStrongAs(NoCollect)}, with_collect leaves the cell at that
\* setting, and with_collect_strength leaves value NoCollect with strength
\* Strict when Strict was requested and AsStrongAs(NoCollect) otherwise.
C7_NoCollectThresholdOutcome ==
    (IsRequest /\ last.snap = Setting("NoCollect", AsStrongAs("NoCollect")))
        => /\ collect.val = "NoCollect"
           /\ collect.strength =
                 IF last.op = "with_collect_strength" /\ last.strength = Strict
                 THEN Strict
                 ELSE AsStrongAs("NoCollect")

C7_Witness ==
    /\ last.op = "with_collect_strength"
    /\ last.snap = Setting("NoCollect", AsStrongAs("NoCollect"))
    /\ last.val = "Collect"
    /\ last.strength = Strict
    /\ collect = Setting("NoCollect", Strict)

\* C8 as stated: whenever the cell's strength is Lenient, a request leaves
\* the cell exactly {v, s}, and {v, Lenient} for the value-only request.
C8_LenientCellFullyReplaced ==
    (IsRequest /\ last.pre.strength = Lenient)
        => collect = Setting(last.val,
                             IF last.op = "with_collect_strength"
                             THEN last.strength ELSE Lenient)

\* C8 amended: whenever the caller's snapshot has strength Lenient, a request
\* leaves the cell exactly {v, s}, and {v, Lenient} for the value-only
\* request.
C8_LenientSnapshotFullyReplaces ==
    (IsRequest /\ last.snap.strength = Lenient)
        => collect = Setting(last.val,
                             IF last.op = "with_collect_strength"
                             THEN last.strength ELSE Lenient)

C8_Witness ==
    /\ last.op = "with_collect_strength"
    /\ last.snap.strength = Lenient
    /\ last.val # last.pre.val
    /\ last.strength # last.pre.strength
    /\ collect = Setting(last.val, last.strength)

\* C9 as stated: after with_collect the cell's strength equals the strength
\* the cell held immediately before the call.
C9_ValueRequestKeepsLiveStrength ==
    last.op = "with_collect" => collect.strength = last.pre.strength

\* C9 amended: after with_collect the cell's strength equals the strength of
\* the caller's snapshot.
C9_ValueRequestStoresSnapshotStrength ==
    last.op = "with_collect" => collect.strength = last.snap.strength

C9_Witness ==
    /\ last.op = "with_collect"
    /\ last.snap.strength # last.pre.strength
    /\ collect.strength = last.snap.strength

\* C10 as stated: a request is only ever applied by the innermost alive
\* handle.
C10_OnlyInnermostScopeRequests ==
    IsRequest => \A t \in alive : t <= last.scope

\* C10 amended: every alive handle, outer or inner, can apply both requests
\* with any arguments.
C10_EveryAliveScopeMayRequest ==
    \A s \in alive, v \in CollectT :
        /\ ENABLED with_collect(s, v)
        /\ \A st \in StrengthT : ENABLED with_collect_strength(s, v, st)

\* An outer handle's request changes the cell while an inner handle is alive
\* whose snapshot differs from the outer's (a request was applied between
\* the two constructions)
C10_Witness ==
    /\ IsRequest
    /\ collect # last.pre
    /\ \E t \in alive : t > last.scope /\ old[t] # last.snap

----------------------------------------------------------------------------
(* Properties of strongest, checked under SpecStrongest *)

CollectPicked == picked.c # Pending.c

StrengthPicked == picked.s # Pending.s

\* C11 as stated: strongest(NoCollect, Collect) = NoCollect and
\* strongest(Collect, NoCollect) = Collect.
C11_StrongestOrderDependent ==
    CollectPicked =>
        /\ (operands.c_old = "NoCollect" /\ operands.c_new = "Collect")
              => picked.c = "NoCollect"
        /\ (operands.c_old = "Collect" /\ operands.c_new = "NoCollect")
              => picked.c = "Collect"

\* C11 amended: strongest(NoCollect, Collect) = NoCollect and
\* strongest(Collect, NoCollect) = NoCollect: on these operands the result
\* is the same in both orders.
C11_StrongestNoCollectInBothOrders ==
    (CollectPicked /\ operands.c_old # operands.c_new)
        => picked.c = "NoCollect"

C11_Witness ==
    /\ CollectPicked
    /\ operands.c_old = "Collect"
    /\ operands.c_new = "NoCollect"
    /\ picked.c = "NoCollect"

\* C12: strongest(NoCollect, x) = NoCollect and strongest(Collect, x) = x for
\* every x, so the result is NoCollect exactly when an operand is NoCollect.
C12_StrongestCollectTable ==
    CollectPicked =>
        /\ operands.c_old = "NoCollect" => picked.c = "NoCollect"
        /\ operands.c_old = "Collect" => picked.c = operands.c_new
        /\ picked.c = "NoCollect"
              <=> "NoCollect" \in {operands.c_old, operands.c_new}

C12_Witness ==
    /\ CollectPicked
    /\ operands.c_old = "NoCollect"
    /\ operands.c_new = "Collect"
    /\ picked.c = "NoCollect"

\* C13: on strengths, in either operand order, strongest yields Strict when
\* an operand is Strict, the other operand when an operand is Lenient, and
\* AsStrongAs(strongest(t1, t2)) for AsStrongAs(t1), AsStrongAs(t2).
C13_StrongestStrengthTable ==
    StrengthPicked =>
        /\ Strict \in {operands.s_old, operands.s_new} => picked.s = Strict
        /\ operands.s_old = Lenient => picked.s = operands.s_new
        /\ operands.s_new = Lenient => picked.s = operands.s_old
        /\ (operands.s_old.tag = "AsStrongAs"
              /\ operands.s_new.tag = "AsStrongAs")
             => picked.s = AsStrongAs(strongest_Collect(operands.s_old.t,
                                                        operands.s_new.t))

C13_Witness ==
    /\ StrengthPicked
    /\ operands.s_old = AsStrongAs("NoCollect")
    /\ operands.s_new = Strict
    /\ picked.s = Strict

----------------------------------------------------------------------------
(* Properties of the snapshots and of the cell, checked under Spec *)

\* C14: a handle's snapshot is the cell's content at the moment of
\* ScopedGCSettings::new, no later step of any handle changes it while the
\* handle is alive, and constructing the handle leaves the cell unchanged.
C14_SnapshotIsStateAtEntry ==
    [][/\ created' = created + 1
          => (old'[created'] = collect /\ collect' = collect)
       /\ \A s \in alive \cap alive' : old'[s] = old[s]]_vars

\* After a request the cell has moved away from an alive handle's snapshot
C14_Witness ==
    /\ IsRequest
    /\ collect # last.pre
    /\ \E s \in alive : old[s] = last.pre /\ old[s] # GCSettings_new

\* C15: a newly constructed GCSettings holds {Collect, Lenient}, so the first
\* handle's snapshot is {Collect, Lenient} and its requests are accepted
\* outright.
C15_StartsCollectLenient ==
    /\ last.op = "GCSettings::new" => collect = Setting("Collect", Lenient)
    /\ (IsRequest /\ last.scope = 1)
         => /\ last.snap = Setting("Collect", Lenient)
            /\ collect = Setting(last.val,
                                 IF last.op = "with_collect_strength"
                                 THEN last.strength ELSE Lenient)

\* The first request after construction, by the first handle
C15_Witness ==
    /\ last.op = "with_collect_strength"
    /\ last.scope = 1
    /\ last.pre = Setting("Collect", Lenient)
    /\ collect = Setting("NoCollect", Strict)

\* C16: for a handle whose snapshot strength is Lenient or AsStrongAs(t), a
\* request for NoCollect, with any strength, leaves the cell's value at
\* NoCollect.
C16_NoCollectAcceptedUnlessStrict ==
    (IsRequest /\ last.snap.strength # Strict /\ last.val = "NoCollect")
        => collect.val = "NoCollect"

C16_Witness ==
    /\ IsRequest
    /\ last.snap = Setting("Collect", AsStrongAs("Collect"))
    /\ last.val = "NoCollect"
    /\ collect.val = "NoCollect"

\* C17: the cell after a request is the macro's result on the caller's
\* snapshot and the request's arguments, whatever the cell held before, and
\* repeating the latest request leaves the cell as it is.
C17_DeterminedBySnapshotAndArguments ==
    [][IsRequest' =>
         /\ collect' =
               IF last'.op = "with_collect_strength"
               THEN generate_setting_fncs_strength(last'.snap, last'.val,
                                                   last'.strength)
               ELSE generate_setting_fncs_value(last'.snap, last'.val)
         /\ (/\ last'.op = last.op
             /\ last'.scope = last.scope
             /\ last'.val = last.val
             /\ last'.strength = last.strength)
              => collect' = collect]_vars

\* A chained request of one handle that leaves the cell as its previous
\* request left it, away from its snapshot
C17_Witness ==
    /\ IsRequest
    /\ last.scope \in solo
    /\ last.pre # last.snap
    /\ collect = last.pre

\* C18 as stated: whenever the cell's strength is AsStrongAs(NoCollect), its
\* value is NoCollect.
C18_ValueAtLeastThreshold ==
    collect.strength = AsStrongAs("NoCollect") => collect.val = "NoCollect"

\* C18 amended: after a request of a handle whose snapshot strength is
\* AsStrongAs(NoCollect), the cell's value is NoCollect.
C18_ValueAtLeastSnapshotThreshold ==
    (IsRequest /\ last.snap.strength = AsStrongAs("NoCollect"))
        => collect.val = "NoCollect"

C18_Witness ==
    /\ IsRequest
    /\ last.snap = Setting("Collect", AsStrongAs("NoCollect"))
    /\ last.val = "Collect"
    /\ collect.val = "NoCollect"

====
